---------------------------- MODULE Spec2Model ----------------------------
(***************************************************************************)
(* The load / partition / rescale pipeline of                              *)
(* customModules/myTools/waveform_tools/data_loader.py:                    *)
(*   load_data      (lines 12-63)                                          *)
(*   load_eval_data (lines 65-119)                                         *)
(* Both call waveform_dataset.read_data (package maxTools, whose code is   *)
(* not among the source files) and then rescale the three partitions with  *)
(* sklearn's StandardScaler(copy=False).                                   *)
(*                                                                         *)
(* Numbers are exact: a ratio is an integer number of percent, a mean or   *)
(* a variance is a reduced fraction <<num, den>>, and a waveform sample is *)
(* a pair [d, s2] standing for d / sqrt(s2), so that a division by a       *)
(* standard deviation needs no square root and a division by zero is       *)
(* visible as s2 = 0.  Floating-point rounding is not modelled.            *)
(***************************************************************************)
EXTENDS Integers, Sequences, FiniteSets, TLC

(***************************************************************************)
(* Bounds of the model.                                                    *)
(***************************************************************************)
\* most rows of the training partition a returned bundle holds (Spec)
MaxTrain == 2
\* row counts of the validation and of the test partition (Spec)
HeldSizes == {0, 1}
\* feature indices of a waveform (128 samples in the source, two here)
Features == {1, 2}
\* raw sample amplitudes
Amplitudes == {0, 1}
\* most records a category's pool holds after the cap (SpecSplit)
MaxPool == 2

(***************************************************************************)
(* Exact rational arithmetic.                                              *)
(***************************************************************************)
Abs(x) == IF x < 0 THEN -x ELSE x

RECURSIVE GCD(_, _)
GCD(a, b) == IF b = 0 THEN a ELSE GCD(b, a % b)

\* the reduced fraction n/d, d # 0, with a positive denominator
Frac(n, d) ==
    LET g == GCD(Abs(n), Abs(d))
        s == IF d < 0 THEN -1 ELSE 1
    IN  <<(s * n) \div g, (s * d) \div g>>

Zero == <<0, 1>>
One == <<1, 1>>
FAdd(p, q) == Frac(p[1] * q[2] + q[1] * p[2], p[2] * q[2])
FSub(p, q) == Frac(p[1] * q[2] - q[1] * p[2], p[2] * q[2])
FMul(p, q) == Frac(p[1] * q[1], p[2] * q[2])
FDiv(p, q) == Frac(p[1] * q[2], p[2] * q[1])

RECURSIVE FSum(_)
FSum(s) == IF s = <<>> THEN Zero ELSE FAdd(Head(s), FSum(Tail(s)))

(***************************************************************************)
(* Waveform samples.  [d |-> p, s2 |-> q] is the real number p / sqrt(q);  *)
(* a raw sample x is x / sqrt(1).  s2 = 0 is the result of a division by   *)
(* zero (numpy's inf or nan).                                              *)
(***************************************************************************)
Raw(x) == [d |-> Frac(x, 1), s2 |-> One]
IsFinite(v) == v.s2 # Zero
\* the square of a finite sample, a fraction
Square(v) == FDiv(FMul(v.d, v.d), v.s2)

WaveRows == [Features -> {Raw(x) : x \in Amplitudes}]
\* the rows a validation or test partition is drawn from: those whose two
\* features differ
HeldRows == {w \in WaveRows : \E f, g \in Features : w[f] # w[g]}

(***************************************************************************)
(* sklearn.preprocessing.StandardScaler, as used at lines 58-61, 113-117.  *)
(***************************************************************************)
\* column f of the array X (a sequence of rows), as a sequence of fractions
Column(X, f) == [i \in 1..Len(X) |-> X[i][f].d]

\* np.mean over axis 0; X has at least one row
Mean(c) == FDiv(FSum(c), Frac(Len(c), 1))

\* the sample variance (ddof = 1), which StandardScaler does not use
VarianceSample(c) ==
    LET m == Mean(c)
    IN  IF Len(c) < 2 THEN Zero
        ELSE FDiv(FSum([i \in 1..Len(c) |-> FMul(FSub(c[i], m), FSub(c[i], m))]),
                  Frac(Len(c) - 1, 1))
\* np.var over axis 0: the population variance (ddof = 0)
Variance(c) ==
    LET m == Mean(c)
    IN  FDiv(FSum([i \in 1..Len(c) |-> FMul(FSub(c[i], m), FSub(c[i], m))]),
             Frac(Len(c), 1))

\* sklearn's _handle_zeros_in_scale: a zero scale is replaced by 1
KeepZeroScale(v) == v
HandleZerosInScale(v) == IF v = Zero THEN One ELSE v

\* check_array(ensure_min_samples=1): fit and transform raise ValueError on
\* an array without rows
TooFewSamples(X) == Len(X) = 0

Unfitted == [fitted |-> FALSE, mean |-> <<>>, var |-> <<>>, scale2 |-> <<>>]

\* StandardScaler.fit(X): mean_, var_ and scale_ = sqrt(var_) with zeros
\* replaced; scale2 is the square of scale_
StandardScalerFit(X) ==
    LET var == [f \in Features |-> Variance(Column(X, f))]
    IN  [fitted |-> TRUE,
         mean   |-> [f \in Features |-> Mean(Column(X, f))],
         var    |-> var,
         scale2 |-> [f \in Features |-> HandleZerosInScale(var[f])]]

\* StandardScaler.transform on one sample: (x - mean_) / scale_
TransformValue(v, p, f) == [d |-> FSub(v.d, p.mean[f]), s2 |-> p.scale2[f]]

\* StandardScaler(copy=False).transform(X): X -= mean_; X /= scale_, in place
StandardScalerTransform(X, p) ==
    [i \in 1..Len(X) |-> [f \in Features |-> TransformValue(X[i][f], p, f)]]

(***************************************************************************)
(* The bundle read_data returns: three partitions of parallel arrays.      *)
(***************************************************************************)
Signal == <<1, 0>>
Background == <<0, 1>>
\* a row that belongs to neither of the two pure classes
Other == <<0, 0>>

\* the label rows a training partition may hold, per entry point
TrainLabels(e) ==
    IF e = "load_eval_data" THEN {Signal, Background, Other}
    ELSE {Signal, Background}

EmptyPartition == [waveforms |-> <<>>, labels |-> <<>>, weights |-> <<>>, ids |-> <<>>]
EmptyBundle == [train |-> EmptyPartition, val |-> EmptyPartition, test |-> EmptyPartition]

\* the partition of parallel arrays made of the rows ws with the labels ls
Partition(ws, ls, base) ==
    [waveforms |-> ws,
     labels    |-> ls,
     weights   |-> [i \in 1..Len(ws) |-> 1],
     ids       |-> [i \in 1..Len(ws) |-> base + i]]

TrainPartitions(e) ==
    UNION {{Partition(ws, ls, 0) : ws \in [1..n -> WaveRows], ls \in [1..n -> TrainLabels(e)]}
           : n \in 0..MaxTrain}

HeldPartitions(base) ==
    UNION {{Partition(ws, [i \in 1..n |-> Background], base) : ws \in [1..n -> HeldRows]}
           : n \in HeldSizes}

ValPartitions == HeldPartitions(10)
TestPartitions == HeldPartitions(20)

\* every category of the catalog contributes at least one record (a
\* category without records is an error), so a bundle holds at least as
\* many rows as the catalog has categories: 3 for load_data (lines 38-43),
\* 4 for load_eval_data (lines 91-96)
MinRows(e) == IF e = "load_eval_data" THEN 4 ELSE 3

Bundles(e) ==
    {b \in {[train |-> tr, val |-> va, test |-> te] :
                tr \in TrainPartitions(e), va \in ValPartitions, te \in TestPartitions} :
        Len(b.train.ids) + Len(b.val.ids) + Len(b.test.ids) >= MinRows(e)}

RowCounts(p) == <<Len(p.waveforms), Len(p.labels), Len(p.weights), Len(p.ids)>>

(***************************************************************************)
(* Arguments of the entry points.                                          *)
(***************************************************************************)
EntryPoints == {"load_data", "load_eval_data"}

\* Python objects passed as rescale: the singletons True and False, and the
\* integer 1 (truthy, equal to True, but not the object True)
PyValues == {"True", "False", "1"}

\* `rescale is True` (lines 57, 111)
Truthy(v) == v \in {"True", "1"}
IsTrue(v) == v = "True"

\* (train_ratio, test_ratio) in percent; the defaults of lines 12 and 65
DefaultRatios == <<80, 13>>
InvalidRatios == {<<80, 20>>, <<0, 13>>, <<80, 100>>, <<90, 13>>}

\* the configuration the partitioner accepts
ValidRatios(r) ==
    /\ 0 < r[1] /\ r[1] < 100
    /\ 0 < r[2] /\ r[2] < 100
    /\ r[1] + r[2] < 100

(***************************************************************************)
(* State.                                                                  *)
(***************************************************************************)
VARIABLES
    pc,         \* position in the entry point
    entry,      \* the entry point called
    rescale,    \* its rescale argument
    ratios,     \* its (train_ratio, test_ratio) arguments
    data,       \* the local `data`: the bundle, rescaled in place
    rescaler,   \* the local `rescaler`: the scaler's fitted attributes
    err,        \* the exception that ended the call, or "none"
    ret,        \* what the call returned: "none" or "data"
    loaded,     \* history: the bundle as read_data returned it
    origin,     \* history: the record pools read_data split, and each row's category
    calls,      \* history: the calls made on the scaler, in order
    script,     \* the training script running, or "none" for a direct call
    dataArg,    \* history: the `data` argument main was called with
    mainData,   \* main's local `data`: the argument, then the bundle in use
    reads       \* history: the reads main's steps made of the bundle, in order

vars == <<pc, entry, rescale, ratios, data, rescaler, err, ret, loaded, origin, calls,
          script, dataArg, mainData, reads>>

mainVars == <<script, dataArg, mainData, reads>>

\* a value of main's `data`: None, or a Datasets bundle
None == [present |-> FALSE, bundle |-> EmptyBundle]
Datasets(b) == [present |-> TRUE, bundle |-> b]

\* no training script is running: the entry point is called directly
NotInMain ==
    /\ script = "none"
    /\ dataArg = None
    /\ mainData = None
    /\ reads = <<>>

NoOrigin == [pools |-> <<>>, train |-> <<>>, val |-> <<>>, test |-> <<>>]

Init ==
    /\ pc = "start"
    /\ entry \in EntryPoints
    /\ rescale \in PyValues
    /\ ratios \in {DefaultRatios} \cup InvalidRatios
    /\ data = EmptyBundle
    /\ rescaler = Unfitted
    /\ err = "none"
    /\ ret = "none"
    /\ loaded = EmptyBundle
    /\ origin = NoOrigin
    /\ calls = <<>>
    /\ NotInMain

(***************************************************************************)
(* The mask of load_eval_data (line 112) and the rows handed to fit.       *)
(***************************************************************************)
MaskFirstColumn(labels) == [i \in 1..Len(labels) |-> labels[i][1] = 1]
Mask(labels) == [i \in 1..Len(labels) |-> labels[i][1] = 1 \/ labels[i][2] = 1]

\* X[mask]: the rows of X selected by a boolean mask, in order
RECURSIVE Select(_, _)
Select(X, m) ==
    IF X = <<>> THEN <<>>
    ELSE IF Head(m) THEN <<Head(X)>> \o Select(Tail(X), Tail(m))
         ELSE Select(Tail(X), Tail(m))

\* the array fit is called on: data.train.waveforms (line 59) or
\* data.train.waveforms[mask] (line 114)
FitArgLeaky(e, b) == b.train.waveforms \o b.val.waveforms
FitArgUnmasked(e, b) == b.train.waveforms
FitArg(e, b) ==
    IF e = "load_eval_data"
    THEN Select(b.train.waveforms, Mask(b.train.labels))
    ELSE b.train.waveforms

Call(op, arg, p) == [op |-> op, arg |-> arg, params |-> p]

Raise(e) ==
    /\ pc' = "raised"
    /\ err' = e

(***************************************************************************)
(* read_data, seen from its callers: it raises on a configuration it       *)
(* rejects and otherwise returns a bundle of parallel arrays.              *)
(***************************************************************************)
Raises(e) == [raises |-> e, bundle |-> EmptyBundle, origin |-> NoOrigin]
Returns(b, o) == [raises |-> "none", bundle |-> b, origin |-> o]

ReadData(e, r) ==
    IF ~ValidRatios(r) THEN {Raises("ConfigurationError")}
    ELSE {Returns(b, NoOrigin) : b \in Bundles(e)}

(***************************************************************************)
(* read_data as the partitioner of the specification (section 4.2): per    *)
(* category, the pool is split into three index groups by the ratios, and  *)
(* the groups are concatenated in catalog order.  Which records fall in    *)
(* which group, and how a share that is no whole number is rounded, is     *)
(* left open there: every choice within rounding is an outcome.            *)
(***************************************************************************)
\* the datasets lists: (category, class codes, max_events)
TrainCatalog ==
    <<[run |-> "11538", codes |-> {"DP", "NC"}, max |-> 3638],
      [run |-> "12034", codes |-> {"CC", "NC"}, max |-> 8637],
      [run |-> "11069", codes |-> {"NC"}, max |-> 7287]>>
EvalCatalog ==
    <<[run |-> "11538", codes |-> {"DP", "NDP", "NC"}, max |-> 3638],
      [run |-> "12034", codes |-> {"CC", "NC"}, max |-> 8637],
      [run |-> "11069", codes |-> {"NC", "CC"}, max |-> 7287],
      [run |-> "11057", codes |-> {"AM"}, max |-> 74890]>>
Catalog(e) == IF e = "load_eval_data" THEN EvalCatalog ELSE TrainCatalog

\* the valid ratios the split is exercised with, in percent
SplitRatios == {DefaultRatios, <<50, 25>>}

\* ids are unique within a category; across categories they either repeat
\* (each category numbers its events from 1) or do not
IdModes == {"shared", "distinct"}
RecordId(c, k, mode) == IF mode = "shared" THEN k ELSE 10 * c + k

\* the k-th record of category c: every record of the split model carries
\* the same waveform, and the label of its category
RecordRow == [f \in Features |-> Raw(0)]
RecordLabel(c) == IF c = 1 THEN Signal ELSE Background

\* sizes of the post-cap pools, one per category of the catalog
PoolSizes(e) == [1..Len(Catalog(e)) -> 0..MaxPool]

Floor(n, pct) == (n * pct) \div 100
Ceil(n, pct) == (n * pct + 99) \div 100

\* the (train, test, val) sizes a pool of n records may be split into: they
\* add up to n and each is its share of n rounded down or up
SplitSizesNoVal(n, r) ==
    {<<a, n - a, 0>> : a \in Floor(n, r[1])..Ceil(n, r[1])}
SplitSizes(n, r) ==
    {t \in {<<a, b, n - a - b>> :
                a \in Floor(n, r[1])..Ceil(n, r[1]), b \in Floor(n, r[2])..Ceil(n, r[2])} :
        /\ t[3] >= Floor(n, 100 - r[1] - r[2])
        /\ t[3] <= Ceil(n, 100 - r[1] - r[2])}

Count(a, part) == Cardinality({k \in DOMAIN a : a[k] = part})

\* the ways to put the n records of one pool into the three groups
Assignments(n, r) ==
    {a \in [1..n -> {"train", "val", "test"}] :
        <<Count(a, "train"), Count(a, "test"), Count(a, "val")>> \in SplitSizes(n, r)}

\* the records <<c, k>>, k >= from, of category c that assignment a puts in
\* the groups `parts`, in pool order
RECURSIVE Slice(_, _, _, _)
Slice(c, a, parts, from) ==
    IF from > Len(a) THEN <<>>
    ELSE (IF a[from] \in parts THEN <<<<c, from>>>> ELSE <<>>) \o Slice(c, a, parts, from + 1)

\* one category's contribution to a partition
GroupOfOverlapping(c, a, part) ==
    Slice(c, a, IF part = "val" THEN {"val", "test"} ELSE {part}, 1)
GroupOf(c, a, part) == Slice(c, a, {part}, 1)

\* the merges of the first c categories: per partition the records in
\* catalog order (category-major)
RECURSIVE Merges(_, _, _)
Merges(sizes, r, c) ==
    IF c = 0 THEN {[train |-> <<>>, val |-> <<>>, test |-> <<>>]}
    ELSE {[train |-> m.train \o GroupOf(c, a, "train"),
           val   |-> m.val \o GroupOf(c, a, "val"),
           test  |-> m.test \o GroupOf(c, a, "test")] :
             m \in Merges(sizes, r, c - 1), a \in Assignments(sizes[c], r)}

\* the parallel arrays of a sequence of records
PartitionOf(refs, mode) ==
    [waveforms |-> [i \in 1..Len(refs) |-> RecordRow],
     labels    |-> [i \in 1..Len(refs) |-> RecordLabel(refs[i][1])],
     weights   |-> [i \in 1..Len(refs) |-> 1],
     ids       |-> [i \in 1..Len(refs) |-> RecordId(refs[i][1], refs[i][2], mode)]]

Categories(refs) == [i \in 1..Len(refs) |-> refs[i][1]]

Built(m, sizes, mode) ==
    Returns([train |-> PartitionOf(m.train, mode),
             val   |-> PartitionOf(m.val, mode),
             test  |-> PartitionOf(m.test, mode)],
            [pools |-> [c \in 1..Len(sizes) |-> [k \in 1..sizes[c] |-> RecordId(c, k, mode)]],
             train |-> Categories(m.train),
             val   |-> Categories(m.val),
             test  |-> Categories(m.test)])

\* build(specs, train_ratio, test_ratio): ConfigurationError on invalid
\* ratios, EmptyCategory on a category without records
Build(e, r, sizes, mode) ==
    IF ~ValidRatios(r) THEN {Raises("ConfigurationError")}
    ELSE IF \E c \in 1..Len(sizes) : sizes[c] = 0 THEN {Raises("EmptyCategory")}
    ELSE {Built(m, sizes, mode) : m \in Merges(sizes, r, Len(sizes))}

(***************************************************************************)
(* The steps of load_data and load_eval_data.                              *)
(***************************************************************************)
\* data = waveform_dataset.read_data(...) (lines 48-54, 101-108): an
\* exception of read_data is not caught
TakeOutcome(o) ==
    /\ IF o.raises # "none"
       THEN /\ Raise(o.raises)
            /\ UNCHANGED <<data, loaded, origin>>
       ELSE /\ pc' = "loaded"
            /\ data' = o.bundle
            /\ loaded' = o.bundle
            /\ origin' = o.origin
            /\ err' = err
    /\ UNCHANGED <<entry, rescale, ratios, rescaler, ret, calls>>
    /\ UNCHANGED mainVars

CallReadDataSwallowed ==
    /\ pc = "start"
    /\ \E o \in ReadData(entry, ratios) :
        /\ pc' = "loaded"
        /\ data' = o.bundle
        /\ loaded' = o.bundle
        /\ origin' = o.origin
        /\ UNCHANGED <<entry, rescale, ratios, rescaler, err, ret, calls>>
        /\ UNCHANGED mainVars
CallReadData ==
    /\ pc = "start"
    /\ \E o \in ReadData(entry, ratios) : TakeOutcome(o)

\* rescaler.fit(...): the fit half of fit_transform (line 59), or fit on the
\* masked rows (lines 112-114)
Fit ==
    /\ pc = "loaded"
    /\ IsTrue(rescale)
    /\ LET X == FitArg(entry, data)
           arg == IF entry = "load_eval_data" THEN "train[mask]" ELSE "train"
       IN  IF TooFewSamples(X)
           THEN /\ Raise("ValueError")
                /\ calls' = Append(calls, Call("fit", arg, rescaler))
                /\ UNCHANGED rescaler
           ELSE /\ pc' = "fitted"
                /\ rescaler' = StandardScalerFit(X)
                /\ calls' = Append(calls, Call("fit", arg, StandardScalerFit(X)))
                /\ err' = err
    /\ UNCHANGED <<entry, rescale, ratios, data, ret, loaded, origin>>
    /\ UNCHANGED mainVars

\* rescaler.transform(data.<part>.waveforms), in place
TransformPart(part, from, to, p) ==
    /\ pc = from
    /\ calls' = Append(calls, Call("transform", part, p))
    /\ IF TooFewSamples(data[part].waveforms)
       THEN /\ Raise("ValueError")
            /\ UNCHANGED data
       ELSE /\ pc' = to
            /\ data' = [data EXCEPT
                    ![part].waveforms = StandardScalerTransform(data[part].waveforms, p)]
            /\ err' = err
    /\ UNCHANGED <<entry, rescale, ratios, ret, loaded, origin>>
    /\ UNCHANGED mainVars

\* the transform half of fit_transform (line 59), or line 115
TransformTrainMasked ==
    /\ pc = "fitted"
    /\ pc' = "scaled_train"
    /\ calls' = Append(calls, Call("transform", "train", rescaler))
    /\ data' = [data EXCEPT !.train.waveforms =
                    StandardScalerTransform(FitArg(entry, data), rescaler)]
    /\ UNCHANGED <<entry, rescale, ratios, rescaler, err, ret, loaded, origin>>
    /\ UNCHANGED mainVars
TransformTrain ==
    /\ TransformPart("train", "fitted", "scaled_train", rescaler)
    /\ UNCHANGED rescaler

\* line 60, line 116
TransformValRefitted ==
    /\ ~TooFewSamples(data.val.waveforms)
    /\ rescaler' = StandardScalerFit(data.val.waveforms)
    /\ TransformPart("val", "scaled_train", "scaled_val",
                     StandardScalerFit(data.val.waveforms))
TransformVal ==
    /\ TransformPart("val", "scaled_train", "scaled_val", rescaler)
    /\ UNCHANGED rescaler

\* line 61, line 117
TransformTest ==
    /\ TransformPart("test", "scaled_val", "scaled_test", rescaler)
    /\ UNCHANGED rescaler

\* return data (lines 63, 119), after the rescaling or, when `rescale is
\* True` fails (lines 57, 111), right after read_data
Return ==
    /\ \/ pc = "scaled_test"
       \/ pc = "loaded" /\ ~IsTrue(rescale)
    /\ pc' = "returned"
    /\ ret' = "data"
    /\ UNCHANGED <<entry, rescale, ratios, data, rescaler, err, loaded, origin, calls>>
    /\ UNCHANGED mainVars

Next ==
    \/ CallReadData
    \/ Fit
    \/ TransformTrain
    \/ TransformVal
    \/ TransformTest
    \/ Return

Spec == Init /\ [][Next]_vars

(***************************************************************************)
(* The build step alone: read_data as the partitioner, on pools of records *)
(* of every size up to MaxPool, followed by the return without rescaling.  *)
(***************************************************************************)
InitSplit ==
    /\ pc = "start"
    /\ entry \in EntryPoints
    /\ rescale = "False"
    /\ ratios \in SplitRatios \cup InvalidRatios
    /\ data = EmptyBundle
    /\ rescaler = Unfitted
    /\ err = "none"
    /\ ret = "none"
    /\ loaded = EmptyBundle
    /\ origin = NoOrigin
    /\ calls = <<>>
    /\ NotInMain

CallReadDataSplit ==
    /\ pc = "start"
    /\ \E sizes \in PoolSizes(entry), mode \in IdModes :
          \E o \in Build(entry, ratios, sizes, mode) : TakeOutcome(o)

NextSplit ==
    \/ CallReadDataSplit
    \/ Return

SpecSplit == InitSplit /\ [][NextSplit]_vars

(***************************************************************************)
(* The training scripts: main of cnn/keras/cnn.py and of snn/snn.py, called *)
(* with a bundle or with data=None.  Both call load_data(verbose=verbose), *)
(* so with the default ratios and rescale=True.  WaveformGenerator,        *)
(* print_metric_results and the keras model are not part of the sources:   *)
(* they are taken, as in sections 3 and 6 of the specification, to read    *)
(* what they are handed.                                                   *)
(***************************************************************************)
Scripts == {"cnn", "snn"}

\* the bundles a caller may pass as `data`
SuppliedBundles == Bundles("load_data")

InitMain ==
    /\ pc = "main"
    /\ entry = "load_data"
    /\ rescale = "True"
    /\ ratios = DefaultRatios
    /\ data = EmptyBundle
    /\ rescaler = Unfitted
    /\ err = "none"
    /\ ret = "none"
    /\ loaded = EmptyBundle
    /\ origin = NoOrigin
    /\ calls = <<>>
    /\ script \in Scripts
    /\ dataArg \in {None} \cup {Datasets(b) : b \in SuppliedBundles}
    /\ mainData = dataArg
    /\ reads = <<>>

\* `data == None` on None or on a Datasets tuple
EqNone(v) == ~v.present

\* if data == None: data = load_data(verbose=verbose)  -- the test and the
\* call (cnn.py 63-64, snn.py 71-72)
ReadInDataReload ==
    /\ pc = "main"
    /\ pc' = "start"
    /\ UNCHANGED <<entry, rescale, ratios, data, rescaler, err, ret, loaded, origin, calls>>
    /\ UNCHANGED mainVars
ReadInData ==
    /\ pc = "main"
    /\ pc' = IF EqNone(mainData) THEN "start" ELSE "have_data"
    /\ UNCHANGED <<entry, rescale, ratios, data, rescaler, err, ret, loaded, origin, calls>>
    /\ UNCHANGED mainVars

\* ... data = <the bundle load_data returned> (cnn.py 64, snn.py 72); an
\* exception of load_data is not caught and ends main
AssignData ==
    /\ pc = "returned"
    /\ pc' = "have_data"
    /\ mainData' = Datasets(data)
    /\ UNCHANGED <<entry, rescale, ratios, data, rescaler, err, ret, loaded, origin, calls>>
    /\ UNCHANGED <<script, dataArg, reads>>

Read(by, part, fields) == [by |-> by, part |-> part, fields |-> fields]

\* a step of main that hands part of the bundle to a collaborator, which
\* reads it
MainStep(from, to, rs) ==
    /\ pc = from
    /\ pc' = to
    /\ reads' = reads \o rs
    /\ UNCHANGED <<entry, rescale, ratios, data, rescaler, err, ret, loaded, origin, calls>>
    /\ UNCHANGED <<script, dataArg>>

AllFields == {"waveforms", "labels", "weights", "ids"}

\* train_gen = WaveformGenerator(data.train, ...) (cnn.py 123-128, snn.py 120-125)
TrainGen ==
    /\ MainStep("have_data", "train_gen", <<Read("WaveformGenerator", "train", AllFields)>>)
    /\ UNCHANGED mainData

\* val_gen = WaveformGenerator(data.val, ...) (cnn.py 130-135, snn.py 127-132)
ValGen ==
    /\ MainStep("train_gen", "val_gen", <<Read("WaveformGenerator", "val", AllFields)>>)
    /\ UNCHANGED mainData

\* model.fit_generator(train_gen, ..., validation_data=val_gen, ...)
\* (cnn.py 138-146, snn.py 143-151): the generators draw their batches
FitGenerator ==
    /\ MainStep("val_gen", "trained",
                <<Read("fit_generator", "train", AllFields),
                  Read("fit_generator", "val", AllFields)>>)
    /\ UNCHANGED mainData

\* test_preds = model.predict(data.val.waveforms, ...) (cnn.py 162, snn.py 154)
Predict ==
    /\ MainStep("trained", "predicted", <<Read("predict", "val", {"waveforms"})>>)
    /\ UNCHANGED mainData

\* print_metric_results(data.val.labels, test_preds, data.val.weights,
\* data.val.ids, th=0.5), then the same with th=0.9 (cnn.py 164-165,
\* snn.py 156-157); th in tenths
Thresholds == <<5, 9>>
PrintMetricResults(k) ==
    /\ MainStep(IF k = 1 THEN "predicted" ELSE "printed",
                IF k = Len(Thresholds) THEN "done" ELSE "printed",
                <<Read("print_metric_results", "val", {"labels", "weights", "ids"})>>)
    /\ UNCHANGED mainData

NextMain ==
    \/ ReadInData
    \/ CallReadData
    \/ Fit
    \/ TransformTrain
    \/ TransformVal
    \/ TransformTest
    \/ Return
    \/ AssignData
    \/ TrainGen
    \/ ValGen
    \/ FitGenerator
    \/ Predict
    \/ \E k \in 1..Len(Thresholds) : PrintMetricResults(k)

SpecMain == InitMain /\ [][NextMain]_vars

(***************************************************************************)
(* Vocabulary of the properties.                                           *)
(***************************************************************************)
Parts == {"train", "val", "test"}

IsPrefix(s, t) == Len(s) <= Len(t) /\ \A i \in 1..Len(s) : s[i] = t[i]

\* the name of the array fit is handed, as logged in calls
FitArgName(e) == IF e = "load_eval_data" THEN "train[mask]" ELSE "train"

\* fit once on the training rows, then transform train, val, test with p
ExpectedCalls(e, p) ==
    <<Call("fit", FitArgName(e), p), Call("transform", "train", p),
      Call("transform", "val", p), Call("transform", "test", p)>>

\* read_data has returned a bundle
Loaded == pc # "start" /\ err # "ConfigurationError"

\* the partitions whose transform has completed
TransformedParts ==
    CASE pc = "scaled_train" -> {"train"}
      [] pc = "scaled_val" -> {"train", "val"}
      [] pc = "scaled_test" -> Parts
      [] pc = "returned" /\ rescaler.fitted -> Parts
      [] OTHER -> {}

\* the bundle b with every partition's waveforms transformed with p and
\* nothing else changed
RescaledBundle(b, p) ==
    [part \in Parts |->
        [b[part] EXCEPT !.waveforms = StandardScalerTransform(b[part].waveforms, p)]]

\* feature f has one value in all the rows of the non-empty array X
Degenerate(X, f) == X # <<>> /\ \A i \in 1..Len(X) : X[i][f] = X[1][f]

\* mean and population variance of column f of a finite array X whose
\* samples of one column share their s2 (raw, or transformed together)
ColumnMean2(X, f) ==
    LET m == FDiv(FSum([i \in 1..Len(X) |-> X[i][f].d]), Frac(Len(X), 1))
    IN  FDiv(FMul(m, m), X[1][f].s2)
ColumnVariance(X, f) ==
    FSub(FDiv(FSum([i \in 1..Len(X) |-> Square(X[i][f])]), Frac(Len(X), 1)),
         ColumnMean2(X, f))

\* the bundles that differ from b in the validation and test partitions only
AltHeldOut(b) ==
    {[b EXCEPT !.val = va, !.test = te] : va \in ValPartitions, te \in TestPartitions}

\* the bundles that differ from b only in the waveforms of training rows
\* the mask of line 112 leaves out
AltUnmasked(b) ==
    {[b EXCEPT !.train.waveforms = ws] :
        ws \in {w \in [1..Len(b.train.waveforms) -> WaveRows] :
                  \A i \in 1..Len(w) :
                      Mask(b.train.labels)[i] => w[i] = b.train.waveforms[i]}}

(***************************************************************************)
(* C2.  No leakage: the fitted parameters are those of a fit on the        *)
(* training rows of the loaded bundle whatever its validation and test     *)
(* partitions hold: replacing val and test by any other content gives the  *)
(* same parameters, in load_data and in load_eval_data.                    *)
(***************************************************************************)
NoLeakage ==
    rescaler.fitted =>
        \A alt \in AltHeldOut(loaded) :
            /\ ~TooFewSamples(FitArg(entry, alt))
            /\ StandardScalerFit(FitArg(entry, alt)) = rescaler

NoLeakageWitness ==
    /\ pc = "returned"
    /\ rescaler.fitted
    /\ Len(loaded.train.waveforms) = 2
    /\ loaded.val.waveforms # loaded.train.waveforms
    /\ \E f \in Features : rescaler.mean[f] # loaded.val.waveforms[1][f].d

(***************************************************************************)
(* C3, as stated: every invocation with rescale enabled that got a bundle  *)
(* from read_data ends having made exactly the calls fit, transform(train),*)
(* transform(val), transform(test).                                        *)
(***************************************************************************)
EveryInvocationRescalesAll ==
    (pc \in {"returned", "raised"} /\ rescale = "True" /\ Loaded) =>
        /\ rescaler.fitted
        /\ calls = ExpectedCalls(entry, rescaler)

(***************************************************************************)
(* C3, amended: with rescale enabled, an invocation that returns has made  *)
(* exactly one fit, on the (masked) training rows of the loaded bundle,    *)
(* then one transform each of train, val, test, all with the fitted        *)
(* parameters; at every moment, also in an invocation the scaler ends with *)
(* ValueError on an array without rows, the calls made are a prefix of     *)
(* that sequence, so the parameters are never refitted.                    *)
(***************************************************************************)
FitOnceThenTransform ==
    rescale = "True" =>
        /\ pc = "returned" => rescaler.fitted /\ calls = ExpectedCalls(entry, rescaler)
        /\ rescaler.fitted =>
              /\ rescaler = StandardScalerFit(FitArg(entry, loaded))
              /\ calls # <<>>
              /\ IsPrefix(calls, ExpectedCalls(entry, rescaler))
        /\ ~rescaler.fitted =>
              /\ calls \in {<<>>, <<Call("fit", FitArgName(entry), Unfitted)>>}
              /\ calls # <<>> => pc = "raised" /\ TooFewSamples(FitArg(entry, loaded))
        /\ (pc = "raised" /\ rescaler.fitted) =>
              /\ err = "ValueError"
              /\ TooFewSamples(loaded[calls[Len(calls)].arg].waveforms)

FitOnceThenTransformWitness ==
    /\ pc = "returned"
    /\ rescale = "True"
    /\ Len(calls) = 4
    /\ Len(loaded.train.waveforms) = 2
    /\ rescaler.var # [f \in Features |-> Zero]

(***************************************************************************)
(* C4.  In load_eval_data the parameters are fitted on the masked training *)
(* rows only: replacing the waveforms of the training rows outside the     *)
(* mask by any others gives the same parameters.                           *)
(***************************************************************************)
MaskedFit ==
    (entry = "load_eval_data" /\ rescaler.fitted) =>
        \A alt \in AltUnmasked(loaded) :
            StandardScalerFit(FitArg(entry, alt)) = rescaler

MaskedFitWitness ==
    /\ entry = "load_eval_data"
    /\ pc = "returned"
    /\ rescaler.fitted
    /\ loaded.train.labels = <<Signal, Other>>
    /\ loaded.train.waveforms[1] # loaded.train.waveforms[2]

DegenerateFeatureSafe ==
    \A f \in Features :
        (rescale = "True" /\ Loaded /\ Degenerate(FitArg(entry, loaded), f)) =>
            /\ pc # "loaded" => rescaler.fitted
            /\ rescaler.fitted => rescaler.scale2[f] = One
            /\ \A part \in Parts : \A i \in 1..Len(data[part].waveforms) :
                  /\ IsFinite(data[part].waveforms[i][f])
                  /\ part \in TransformedParts =>
                        data[part].waveforms[i][f] =
                            [d  |-> FSub(loaded[part].waveforms[i][f].d, rescaler.mean[f]),
                             s2 |-> One]

DegenerateFeatureWitness ==
    /\ pc = "returned"
    /\ rescaler.fitted
    /\ Len(FitArg(entry, loaded)) = 2
    /\ Degenerate(FitArg(entry, loaded), 1)
    /\ ~Degenerate(FitArg(entry, loaded), 2)
    /\ loaded.val.waveforms[1][1] # loaded.train.waveforms[1][1]

(***************************************************************************)
(* C7, as stated: a returned bundle is unnormalized, with no fit and no    *)
(* transform made, if rescale is False, and rescaled for any other value   *)
(* of the argument.                                                        *)
(***************************************************************************)
RescaledUnlessFalse ==
    pc = "returned" =>
        /\ rescale = "False" => data = loaded /\ calls = <<>>
        /\ rescale # "False" =>
              rescaler.fitted /\ data = RescaledBundle(loaded, rescaler)

(***************************************************************************)
(* C7, amended: a returned bundle is rescaled exactly when the argument is *)
(* the object True; for False and for any other value (the integer 1       *)
(* included) no fit and no transform is made and the bundle returned is    *)
(* exactly the one read_data produced.                                     *)
(***************************************************************************)
RescaledOnlyIfTrue ==
    /\ rescale # "True" => calls = <<>> /\ rescaler = Unfitted /\ data = loaded
    /\ (pc = "returned" /\ rescale = "True") =>
          /\ rescaler.fitted
          /\ calls = ExpectedCalls(entry, rescaler)
          /\ data = RescaledBundle(loaded, rescaler)

RescaledOnlyIfTrueWitness ==
    /\ pc = "returned"
    /\ rescale = "1"
    /\ ret = "data"
    /\ Len(data.train.waveforms) = 2
    /\ data.val.waveforms # <<>>
    /\ data.test.waveforms # <<>>

(***************************************************************************)
(* C8.  With train_ratio + test_ratio >= 1, or a ratio outside (0,1), the  *)
(* call ends in ConfigurationError: nothing is returned, no bundle is held *)
(* and the scaler is never called.                                         *)
(***************************************************************************)
InvalidRatiosRaise ==
    ~ValidRatios(ratios) =>
        /\ pc \in {"start", "raised"}
        /\ pc = "raised" => err = "ConfigurationError"
        /\ ret = "none"
        /\ data = EmptyBundle
        /\ calls = <<>>

InvalidRatiosWitness ==
    /\ pc = "raised"
    /\ err = "ConfigurationError"
    /\ ratios = <<80, 20>>
    /\ rescale = "True"

(***************************************************************************)
(* C10.  In every state, and so in every bundle returned, each partition's *)
(* waveforms, labels, weights and ids have the same number of rows;        *)
(* rescaling leaves the row counts, labels, weights and ids as loaded.     *)
(***************************************************************************)
ParallelArrays ==
    \A part \in Parts :
        /\ \A n \in {Len(data[part].labels), Len(data[part].weights), Len(data[part].ids)} :
              n = Len(data[part].waveforms)
        /\ RowCounts(data[part]) = RowCounts(loaded[part])
        /\ [data[part] EXCEPT !.waveforms = <<>>] = [loaded[part] EXCEPT !.waveforms = <<>>]

ParallelArraysWitness ==
    /\ pc = "returned"
    /\ entry = "load_eval_data"
    /\ rescaler.fitted
    /\ data.train.labels = <<Other, Signal>>
    /\ data.train.waveforms # loaded.train.waveforms
    /\ Len(data.val.ids) = 1

(***************************************************************************)
(* Vocabulary of the properties of the build step.                         *)
(***************************************************************************)
\* read_data has built a bundle from pools
BuiltFromPools == pc \in {"loaded", "returned"} /\ origin.pools # <<>>

IdSet(part) == {data[part].ids[i] : i \in 1..Len(data[part].ids)}

\* the records of a partition, each named by its category and its id
RecordSet(part) == {<<origin[part][i], data[part].ids[i]>> : i \in 1..Len(data[part].ids)}

\* the records of the pools
PoolRecords ==
    UNION {{<<c, origin.pools[c][k]>> : k \in 1..Len(origin.pools[c])} :
             c \in 1..Len(origin.pools)}

PairwiseDisjoint(S) ==
    /\ S["train"] \cap S["val"] = {}
    /\ S["train"] \cap S["test"] = {}
    /\ S["val"] \cap S["test"] = {}

\* no id value occurs in the pools of two categories
IdsUniqueAcrossCategories ==
    \A c1, c2 \in 1..Len(origin.pools) :
        c1 # c2 =>
            \A k1 \in 1..Len(origin.pools[c1]), k2 \in 1..Len(origin.pools[c2]) :
                origin.pools[c1][k1] # origin.pools[c2][k2]

\* rows of `part` that come from category c
CategoryCount(part, c) == Cardinality({i \in 1..Len(origin[part]) : origin[part][i] = c})

\* count is the share pct (percent) of n, rounded down or up
WithinRounding(count, n, pct) == Floor(n, pct) <= count /\ count <= Ceil(n, pct)

(***************************************************************************)
(* C1, as stated: the sizes of train, val and test add up to the number of *)
(* loaded records, and the three sets of ids are pairwise disjoint, also   *)
(* when two categories hold records with the same id.                      *)
(***************************************************************************)
IdSetsDisjoint ==
    BuiltFromPools =>
        /\ Len(data.train.ids) + Len(data.val.ids) + Len(data.test.ids)
              = Cardinality(PoolRecords)
        /\ PairwiseDisjoint([part \in Parts |-> IdSet(part)])

(***************************************************************************)
(* C1, amended: the sizes of train, val and test add up to the number of   *)
(* loaded records and every loaded record, named by its category and id,   *)
(* is in exactly one partition; the three sets of ids are pairwise         *)
(* disjoint whenever no id value occurs in two categories.                 *)
(***************************************************************************)
RecordsPartitioned ==
    BuiltFromPools =>
        /\ Len(data.train.ids) + Len(data.val.ids) + Len(data.test.ids)
              = Cardinality(PoolRecords)
        /\ \A part \in Parts : Cardinality(RecordSet(part)) = Len(data[part].ids)
        /\ PairwiseDisjoint([part \in Parts |-> RecordSet(part)])
        /\ UNION {RecordSet(part) : part \in Parts} = PoolRecords
        /\ IdsUniqueAcrossCategories =>
              PairwiseDisjoint([part \in Parts |-> IdSet(part)])

RecordsPartitionedWitness ==
    /\ pc = "returned"
    /\ BuiltFromPools
    /\ IdsUniqueAcrossCategories
    /\ ratios = DefaultRatios
    /\ Len(data.train.ids) = 3
    /\ Len(data.val.ids) = 1
    /\ Len(data.test.ids) = 1

(***************************************************************************)
(* C9.  Per-category stratification: for each category, its numbers of     *)
(* rows in train, test and val are the shares train_ratio, test_ratio and  *)
(* val_ratio of that category's own pool, rounded down or up; pools of     *)
(* 100, 50 and 70 at ratios 0.8 and 0.1 split into (80,10,10), (40,5,5)    *)
(* and (56,7,7), 176/22/22 in total.                                       *)
(***************************************************************************)
Scenario ==
    /\ SplitSizes(100, <<80, 10>>) = {<<80, 10, 10>>}
    /\ SplitSizes(50, <<80, 10>>) = {<<40, 5, 5>>}
    /\ SplitSizes(70, <<80, 10>>) = {<<56, 7, 7>>}
    /\ \A a \in SplitSizes(100, <<80, 10>>), b \in SplitSizes(50, <<80, 10>>),
          c \in SplitSizes(70, <<80, 10>>) :
            [i \in 1..3 |-> a[i] + b[i] + c[i]] = <<176, 22, 22>>

HandedOver ==
    pc \in {"have_data", "train_gen", "val_gen", "trained", "predicted", "printed", "done"}

\* main is inside its call of load_data, or that call has ended
InLoadData ==
    pc \in {"start", "loaded", "fitted", "scaled_train", "scaled_val", "scaled_test",
            "returned", "raised"}

\* the partitions main's steps have read so far
PartsRead == {reads[i].part : i \in 1..Len(reads)}

(***************************************************************************)
(* C11.  The bundle in the hands of a training script (cnn main, snn main) *)
(* is never changed after the handover.  A bundle passed through the data  *)
(* argument is the bundle in use, exactly as passed: read_data is not      *)
(* called and the scaler is neither fitted nor applied.  With data=None    *)
(* the bundle in use is the one load_data returned, rescaled once with one *)
(* set of fitted parameters, and load_data is entered only in that case.   *)
(* The steps of main read the train and val partitions only.               *)
(***************************************************************************)
HandedOverBundleUntouched ==
    /\ dataArg.present =>
          /\ ~InLoadData
          /\ mainData = dataArg
          /\ calls = <<>> /\ loaded = EmptyBundle /\ ret = "none"
    /\ (HandedOver /\ ~dataArg.present) =>
          /\ ret = "data"
          /\ mainData = Datasets(RescaledBundle(loaded, rescaler))
          /\ calls = ExpectedCalls("load_data", rescaler)
    /\ HandedOver => mainData.present
    /\ PartsRead \subseteq {"train", "val"}

\* main has run to its end on a bundle it loaded itself, whose rescaling
\* changed the waveforms, and has built both generators, trained, predicted
\* and printed both metric reports
HandedOverBundleUntouchedWitness ==
    /\ pc = "done"
    /\ ~dataArg.present
    /\ rescaler.fitted
    /\ mainData.bundle # loaded
    /\ Len(reads) = 7
    /\ PartsRead = {"train", "val"}

(***************************************************************************)
(* Vocabulary of the mask property.                                        *)
(***************************************************************************)
\* the rows whose first or second label component is 1
PureRows(labels) == {i \in 1..Len(labels) : labels[i][1] = 1 \/ labels[i][2] = 1}

\* the rows of X with index in S, in the order of X
Picked(X, S) ==
    [k \in 1..Cardinality(S) |->
        X[CHOOSE i \in S : Cardinality({j \in S : j <= i}) = k]]

\* hard one-hot over two columns: components 0 or 1, summing to 1
OneHot(labels) ==
    \A i \in 1..Len(labels) :
        /\ labels[i][1] \in {0, 1} /\ labels[i][2] \in {0, 1}
        /\ labels[i][1] + labels[i][2] = 1

\* fit has been called in load_eval_data
EvalFitCalled == entry = "load_eval_data" /\ rescale = "True" /\ Len(calls) >= 1

(***************************************************************************)
(* C12.  In load_eval_data the rows handed to fit are exactly the training *)
(* rows whose first or second label component equals 1, in their order:    *)
(* fit fails on them if there is none, and otherwise the fitted parameters *)
(* are those of a fit on these rows.  When the training labels are hard    *)
(* one-hot, every training row is selected and the fitted parameters are   *)
(* those of an unmasked fit on the whole training partition.               *)
(***************************************************************************)
MaskSelectsPureRows ==
    EvalFitCalled =>
        LET labels == loaded.train.labels
            X == loaded.train.waveforms
            rows == Picked(X, PureRows(labels))
        IN  /\ rescaler.fitted <=> PureRows(labels) # {}
            /\ (~rescaler.fitted) => (err = "ValueError" /\ Len(calls) = 1)
            /\ rescaler.fitted => rescaler = StandardScalerFit(rows)
            /\ OneHot(labels) =>
                  /\ PureRows(labels) = 1..Len(labels)
                  /\ rows = X
                  /\ rescaler.fitted => rescaler = StandardScalerFit(X)

\* load_eval_data has returned after a fit on one-hot training labels of
\* both classes, on rows that differ, so that leaving a row out of the fit
\* would change the parameters
MaskSelectsPureRowsWitness ==
    /\ entry = "load_eval_data"
    /\ rescale = "True"
    /\ pc = "returned"
    /\ rescaler.fitted
    /\ OneHot(loaded.train.labels)
    /\ loaded.train.labels = <<Signal, Background>>
    /\ loaded.train.waveforms[1] # loaded.train.waveforms[2]
    /\ rescaler = StandardScalerFit(loaded.train.waveforms)
====
